---------------------------- MODULE Spec2Model ----------------------------
(***************************************************************************)
(* Model of Utils/generate_site.py, class MarkdownToHtml: the ordered,     *)
(* multi-pass markdown to HTML conversion.  Text is a TLA+ string, i.e. a  *)
(* sequence of characters; every regular-expression substitution of the    *)
(* source is written as the scanner the regular expression denotes.        *)
(***************************************************************************)
EXTENDS Integers, Sequences, FiniteSets, TLC

VARIABLES markdown, html, code_blocks, pc, ri

vars == <<markdown, html, code_blocks, pc, ri>>

(***************************************************************************)
(* Python str primitives.                                                  *)
(***************************************************************************)

\* s[a-1:b] for 1 <= a, clipped to the string
Slice(s, a, b) == IF a > b \/ a > Len(s) THEN "" ELSE SubSeq(s, a, IF b > Len(s) THEN Len(s) ELSE b)

\* the character at (1-based) position k, "" beyond the end
CharAt(s, k) == Slice(s, k, k)

\* s.startswith(p, k-1)
StartsAt(s, p, k) == Slice(s, k, k + Len(p) - 1) = p

StartsWith(s, p) == StartsAt(s, p, 1)

\* s.find(p, k-1) + 1: the least position >= k where p occurs, 0 if none
Find(s, p, k) ==
    LET last == Len(s) - Len(p) + 1
        hit(j) == SubSeq(s, j, j + Len(p) - 1) = p
    IN  IF \E j \in k..last : hit(j)
        THEN CHOOSE j \in k..last : hit(j) /\ \A h \in k..(j - 1) : ~hit(h)
        ELSE 0

\* the greatest position in a..b where p occurs, 0 if none (a greedy ".*" backing off)
FindLast(s, p, a, b) ==
    LET hit(j) == StartsAt(s, p, j)
    IN  IF \E j \in a..b : hit(j)
        THEN CHOOSE j \in a..b : hit(j) /\ \A h \in (j + 1)..b : ~hit(h)
        ELSE 0

\* p in s
Contains(s, p) == Find(s, p, 1) # 0

\* s.split(sep)
RECURSIVE Split(_, _)
Split(s, sep) ==
    LET k == Find(s, sep, 1)
    IN  IF k = 0 THEN <<s>>
        ELSE <<Slice(s, 1, k - 1)>> \o Split(Slice(s, k + Len(sep), Len(s)), sep)

\* sep.join(parts)
RECURSIVE Join(_, _)
Join(parts, sep) ==
    IF Len(parts) = 0 THEN ""
    ELSE IF Len(parts) = 1 THEN parts[1]
    ELSE parts[1] \o sep \o Join(Tail(parts), sep)

\* s.replace(old, new): every non-overlapping occurrence, left to right
RECURSIVE Replace(_, _, _)
Replace(s, old, new) ==
    LET k == Find(s, old, 1)
    IN  IF k = 0 THEN s
        ELSE Slice(s, 1, k - 1) \o new \o Replace(Slice(s, k + Len(old), Len(s)), old, new)

\* the characters str.strip() removes and the regular expression \s matches
Whitespace == {" ", "\t", "\n", "\r", "\f"}

\* s.strip()
Strip(s) ==
    LET solid == {j \in 1..Len(s) : CharAt(s, j) \notin Whitespace}
    IN  IF solid = {} THEN ""
        ELSE LET a == CHOOSE j \in solid : \A h \in solid : j <= h
                 b == CHOOSE j \in solid : \A h \in solid : h <= j
             IN  SubSeq(s, a, b)

\* the characters the regular expression \w matches
WordChars ==
    {"a", "b", "c", "d", "e", "f", "g", "h", "i", "j", "k", "l", "m",
     "n", "o", "p", "q", "r", "s", "t", "u", "v", "w", "x", "y", "z",
     "A", "B", "C", "D", "E", "F", "G", "H", "I", "J", "K", "L", "M",
     "N", "O", "P", "Q", "R", "S", "T", "U", "V", "W", "X", "Y", "Z",
     "0", "1", "2", "3", "4", "5", "6", "7", "8", "9", "_"}

\* str(n) for n >= 0, as the f-string of save_code_block renders the index
RECURSIVE ToStr(_)
ToStr(n) ==
    LET digit == SubSeq("0123456789", (n % 10) + 1, (n % 10) + 1)
    IN  IF n < 10 THEN digit ELSE ToStr(n \div 10) \o digit

(***************************************************************************)
(* MarkdownToHtml._escape_html and MarkdownToHtml._clean_code_block.       *)
(***************************************************************************)

_escape_html(text) ==
    Replace(Replace(Replace(text, "&", "&amp;"), "<", "&lt;"), ">", "&gt;")

IsBlank(line) == Strip(line) = ""

\* the loop of lines 123-124 as a single test: one leading blank line popped
PopLeadingBlank_once(lines) ==
    IF Len(lines) > 0 /\ IsBlank(lines[1]) THEN Tail(lines) ELSE lines

RECURSIVE PopLeadingBlank(_)
PopLeadingBlank(lines) ==
    IF Len(lines) > 0 /\ IsBlank(lines[1]) THEN PopLeadingBlank(Tail(lines)) ELSE lines

RECURSIVE PopTrailingBlank(_)
PopTrailingBlank(lines) ==
    IF Len(lines) > 0 /\ IsBlank(lines[Len(lines)])
    THEN PopTrailingBlank(SubSeq(lines, 1, Len(lines) - 1))
    ELSE lines

\* the loop without its prev_blank test: every blank line becomes an empty one
RECURSIVE CollapseBlank_each(_, _, _)
CollapseBlank_each(lines, k, prev_blank) ==
    IF k > Len(lines) THEN <<>>
    ELSE IF IsBlank(lines[k])
         THEN <<"">> \o CollapseBlank_each(lines, k + 1, TRUE)
         ELSE <<lines[k]>> \o CollapseBlank_each(lines, k + 1, FALSE)

\* the loop of lines 128-138: result after the lines from k on, prev_blank as given
RECURSIVE CollapseBlank(_, _, _)
CollapseBlank(lines, k, prev_blank) ==
    IF k > Len(lines) THEN <<>>
    ELSE IF IsBlank(lines[k])
         THEN (IF prev_blank THEN <<>> ELSE <<"">>) \o CollapseBlank(lines, k + 1, TRUE)
         ELSE <<lines[k]>> \o CollapseBlank(lines, k + 1, FALSE)

_clean_code_block(code) ==
    Join(CollapseBlank(PopTrailingBlank(PopLeadingBlank(Split(code, "\n"))), 1, FALSE), "\n")

(***************************************************************************)
(* Stage 1, lines 50-58: fenced code blocks are extracted into the call's  *)
(* code_blocks list and replaced by placeholders.                          *)
(***************************************************************************)

\* The backtick cannot be written in a TLA+ string: the model writes the
\* character ~ for it throughout, in the input as in the patterns (no pattern
\* of the source treats ~ specially, and the inputs use ~ for nothing else).
BT == "~"

\* the fence marker, three backticks
Fence == BT \o BT \o BT

\* f'__CODE_BLOCK_{len(code_blocks) - 1}__' for the record at 0-based index n
Placeholder(n) == "__CODE_BLOCK_" \o ToStr(n) \o "__"

\* the position after the maximal run of \w characters that starts at k
WordEnd(s, k) ==
    CHOOSE j \in k..(Len(s) + 1) :
        /\ CharAt(s, j) \notin WordChars
        /\ \A h \in k..(j - 1) : CharAt(s, h) \in WordChars

\* the match of ```(\w+)?\n(.*?)``` (DOTALL) that starts at position k
FenceMatch(s, k) ==
    LET w == WordEnd(s, k + 3)
        e == Find(s, Fence, w + 1)
    IN  [ok   |-> StartsAt(s, Fence, k) /\ CharAt(s, w) = "\n" /\ e # 0,
         lang |-> Slice(s, k + 3, w - 1),
         body |-> Slice(s, w + 1, e - 1),
         stop |-> e + 2]

\* save_code_block, lines 52-56: the rendered record of one match
save_code_block(m) ==
    LET lang == IF m.lang = "" THEN "text" ELSE m.lang
        code == _escape_html(_clean_code_block(m.body))
    IN  "<pre><code class=\"language-" \o lang \o "\">" \o code \o "</code></pre>"

\* re.sub of line 58 from position from on, with the records saved so far
RECURSIVE ExtractFrom(_, _, _)
ExtractFrom(s, from, blocks) ==
    LET k == Find(s, Fence, from)
        m == FenceMatch(s, k)
    IN  IF k = 0 THEN [html |-> Slice(s, from, Len(s)), blocks |-> blocks]
        ELSE IF m.ok
             THEN LET rest == ExtractFrom(s, m.stop + 1, Append(blocks, save_code_block(m)))
                  IN  [html   |-> Slice(s, from, k - 1) \o Placeholder(Len(blocks)) \o rest.html,
                       blocks |-> rest.blocks]
             ELSE LET rest == ExtractFrom(s, k + 1, blocks)
                  IN  [html |-> Slice(s, from, k) \o rest.html, blocks |-> rest.blocks]

(***************************************************************************)
(* Stages 2-6, lines 60-83: the inline substitutions.                      *)
(***************************************************************************)

\* re.sub(r'`([^`]+)`', r'<code>\1</code>', s), from position from on
RECURSIVE InlineCodeFrom(_, _)
InlineCodeFrom(s, from) ==
    LET k == Find(s, BT, from)
        e == Find(s, BT, k + 1)
    IN  IF k = 0 THEN Slice(s, from, Len(s))
        ELSE IF e > k + 1
             THEN Slice(s, from, k - 1) \o "<code>" \o Slice(s, k + 1, e - 1) \o "</code>"
                      \o InlineCodeFrom(s, e + 1)
             ELSE Slice(s, from, k) \o InlineCodeFrom(s, k + 1)

InlineCode(s) == InlineCodeFrom(s, 1)

\* the prefixes of line 68 that mark a path as not local
AbsolutePrefixes == {"http://", "https://", "/"}

\* convert_image with the test of line 68 written src.startswith(('http', '/'))
convert_image_http(alt, src) ==
    LET out == IF StartsWith(src, "http") \/ StartsWith(src, "/") THEN src ELSE "../" \o src
    IN  "<img src=\"" \o out \o "\" alt=\"" \o alt \o "\" style=\"max-width:100%;height:auto;\">"

\* convert_image, lines 64-70
convert_image(alt, src) ==
    LET out == IF \E p \in AbsolutePrefixes : StartsWith(src, p) THEN src ELSE "../" \o src
    IN  "<img src=\"" \o out \o "\" alt=\"" \o alt \o "\" style=\"max-width:100%;height:auto;\">"

\* re.sub(r'!\[([^\]]*)\]\(([^)]+)\)', convert_image, s), from position from on
RECURSIVE ImagesFrom(_, _)
ImagesFrom(s, from) ==
    LET k  == Find(s, "![", from)
        e1 == Find(s, "]", k + 2)
        e2 == Find(s, ")", e1 + 2)
    IN  IF k = 0 THEN Slice(s, from, Len(s))
        ELSE IF e1 # 0 /\ CharAt(s, e1 + 1) = "(" /\ e2 > e1 + 2
             THEN Slice(s, from, k - 1)
                      \o convert_image(Slice(s, k + 2, e1 - 1), Slice(s, e1 + 2, e2 - 1))
                      \o ImagesFrom(s, e2 + 1)
             ELSE Slice(s, from, k) \o ImagesFrom(s, k + 1)

Images(s) == ImagesFrom(s, 1)

\* re.sub(r'\[([^\]]+)\]\(([^)]+)\)', r'<a href="\2">\1</a>', s), from position from on
RECURSIVE LinksFrom(_, _)
LinksFrom(s, from) ==
    LET k  == Find(s, "[", from)
        e1 == Find(s, "]", k + 1)
        e2 == Find(s, ")", e1 + 2)
    IN  IF k = 0 THEN Slice(s, from, Len(s))
        ELSE IF e1 > k + 1 /\ CharAt(s, e1 + 1) = "(" /\ e2 > e1 + 2
             THEN Slice(s, from, k - 1)
                      \o "<a href=\"" \o Slice(s, e1 + 2, e2 - 1) \o "\">"
                      \o Slice(s, k + 1, e1 - 1) \o "</a>"
                      \o LinksFrom(s, e2 + 1)
             ELSE Slice(s, from, k) \o LinksFrom(s, k + 1)

Links(s) == LinksFrom(s, 1)

\* one line under re.sub(r'^<prefix>(.+)$', r'<tag>\1</tag>', flags=re.MULTILINE)
WrapLine(line, prefix, open, close) ==
    IF StartsWith(line, prefix) /\ Len(line) > Len(prefix)
    THEN open \o Slice(line, Len(prefix) + 1, Len(line)) \o close
    ELSE line

\* a MULTILINE substitution anchored with ^ and $, applied to every line
SubLines(s, prefix, open, close) ==
    LET lines == Split(s, "\n")
    IN  Join([k \in DOMAIN lines |-> WrapLine(lines[k], prefix, open, close)], "\n")

\* the pattern of line 77 without its anchor ^ and with the prefix of line 79:
\* a "# " anywhere in a line opens an <h1> up to the end of the line
Header3_unanchored(s) ==
    LET lines == Split(s, "\n")
    IN  Join([k \in DOMAIN lines |->
                 LET at == Find(lines[k], "# ", 1)
                 IN  IF at # 0 /\ Len(lines[k]) > at + 1
                     THEN Slice(lines[k], 1, at - 1) \o "<h1>"
                              \o Slice(lines[k], at + 2, Len(lines[k])) \o "</h1>"
                     ELSE lines[k]], "\n")

Header3(s) == SubLines(s, "### ", "<h3>", "</h3>")
Header2(s) == SubLines(s, "## ", "<h2>", "</h2>")
Header1(s) == SubLines(s, "# ", "<h1>", "</h1>")

\* re.sub(r'\*\*(.+?)\*\*', r'<strong>\1</strong>', s), from position from on
RECURSIVE BoldFrom(_, _)
BoldFrom(s, from) ==
    LET k  == Find(s, "**", from)
        e  == Find(s, "**", k + 3)
        nl == Find(s, "\n", k + 2)
    IN  IF k = 0 THEN Slice(s, from, Len(s))
        ELSE IF e # 0 /\ (nl = 0 \/ nl > e)
             THEN Slice(s, from, k - 1) \o "<strong>" \o Slice(s, k + 2, e - 1) \o "</strong>"
                      \o BoldFrom(s, e + 2)
             ELSE Slice(s, from, k) \o BoldFrom(s, k + 1)

Bold(s) == BoldFrom(s, 1)

\* re.sub(r'\*(.+?)\*', r'<em>\1</em>', s), from position from on
RECURSIVE ItalicFrom(_, _)
ItalicFrom(s, from) ==
    LET k  == Find(s, "*", from)
        e  == Find(s, "*", k + 2)
        nl == Find(s, "\n", k + 1)
    IN  IF k = 0 THEN Slice(s, from, Len(s))
        ELSE IF e # 0 /\ (nl = 0 \/ nl > e)
             THEN Slice(s, from, k - 1) \o "<em>" \o Slice(s, k + 1, e - 1) \o "</em>"
                      \o ItalicFrom(s, e + 1)
             ELSE Slice(s, from, k) \o ItalicFrom(s, k + 1)

Italic(s) == ItalicFrom(s, 1)

(***************************************************************************)
(* Stage 7, lines 141-193: tables.  A Python call either returns a value   *)
(* or raises; the result of _build_table and _convert_tables is a record   *)
(* that says which.                                                        *)
(***************************************************************************)

Return(v) == [exc |-> "", val |-> v]

Raise(e) == [exc |-> e, val |-> ""]

\* whether the Python subscript list[n] (n >= 0) is in range
InRange(list, n) == n + 1 \in DOMAIN list

\* [c.strip() for c in line.split('|')[1:-1]], lines 174 and 183
Cells(line) ==
    LET fields == Split(line, "|")
        inner  == IF Len(fields) <= 2 THEN <<>> ELSE SubSeq(fields, 2, Len(fields) - 1)
    IN  [k \in DOMAIN inner |-> Strip(inner[k])]

\* the html.append calls of lines 184-189 for the body lines from k on
RECURSIVE BodyRows(_, _)
BodyRows(lines, k) ==
    IF k > Len(lines) THEN <<>>
    ELSE LET cells == Cells(lines[k])
         IN  <<"<tr>">>
                 \o [j \in DOMAIN cells |-> "<td>" \o InlineCode(cells[j]) \o "</td>"]
                 \o <<"</tr>">>
                 \o BodyRows(lines, k + 1)

\* the list html of lines 171-192 for a run with a header line, joined
TableHtml(lines) ==
    LET header_cells == Cells(lines[1])
    IN  Join(<<"<div class=\"table-wrapper\"><table>", "<thead><tr>">>
                 \o [k \in DOMAIN header_cells |-> "<th>" \o header_cells[k] \o "</th>"]
                 \o <<"</tr></thead>", "<tbody>">>
                 \o BodyRows(lines, 3)
                 \o <<"</tbody>", "</table></div>">>,
             "\n")

\* _build_table without the length test of line 168, reading the separator lines[1]
_build_table_unguarded(lines) ==
    IF ~InRange(lines, 1) THEN Raise("IndexError") ELSE Return(TableHtml(lines))

_build_table(lines) ==
    IF Len(lines) < 2 THEN Return(Join(lines, "\n"))
    ELSE IF ~InRange(lines, 0) THEN Raise("IndexError")
    ELSE Return(TableHtml(lines))

\* the test of line 149
\* the test of line 149 without its second half
IsTableLine_any(line) == Contains(line, "|")

IsTableLine(line) == Contains(line, "|") /\ StartsWith(Strip(line), "|")

\* the loop of lines 148-162 from line k on: the list result, or the exception
RECURSIVE TableLoop(_, _, _, _)
TableLoop(lines, k, in_table, table_lines) ==
    IF k > Len(lines)
    THEN IF in_table
         THEN LET t == _build_table(table_lines)
              IN  IF t.exc # "" THEN [exc |-> t.exc, val |-> <<>>]
                  ELSE [exc |-> "", val |-> <<t.val>>]
         ELSE [exc |-> "", val |-> <<>>]
    ELSE IF IsTableLine(lines[k])
         THEN TableLoop(lines, k + 1, TRUE,
                        (IF in_table THEN table_lines ELSE <<>>) \o <<lines[k]>>)
         ELSE LET t    == IF in_table THEN _build_table(table_lines) ELSE Return("")
                  rest == TableLoop(lines, k + 1, FALSE, <<>>)
              IN  IF t.exc # "" THEN [exc |-> t.exc, val |-> <<>>]
                  ELSE IF rest.exc # "" THEN rest
                  ELSE [exc |-> "",
                        val |-> (IF in_table THEN <<t.val>> ELSE <<>>) \o <<lines[k]>> \o rest.val]

_convert_tables(s) ==
    LET r == TableLoop(Split(s, "\n"), 1, FALSE, <<>>)
    IN  IF r.exc # "" THEN Raise(r.exc) ELSE Return(Join(r.val, "\n"))

(***************************************************************************)
(* Stages 8-11, lines 88-108: lists, paragraphs, cleanup, restoration.     *)
(***************************************************************************)

ListItems(s) == SubLines(s, "- ", "<li>", "</li>")

\* the group without its optional newline, (<li>.*</li>)
LiGroupEnd_line(s, k) ==
    LET nl      == Find(s, "\n", k)
        lineEnd == IF nl = 0 THEN Len(s) ELSE nl - 1
        close   == FindLast(s, "</li>", k + 4, lineEnd - 4)
    IN  IF ~StartsAt(s, "<li>", k) \/ close = 0 THEN 0 ELSE close + 5

\* one iteration of the group (<li>.*</li>\n?) at position k: the position
\* after it, 0 if the group does not match there
LiGroupEnd(s, k) ==
    LET nl      == Find(s, "\n", k)
        lineEnd == IF nl = 0 THEN Len(s) ELSE nl - 1
        close   == FindLast(s, "</li>", k + 4, lineEnd - 4)
    IN  IF ~StartsAt(s, "<li>", k) \/ close = 0 THEN 0
        ELSE IF CharAt(s, close + 5) = "\n" THEN close + 6 ELSE close + 5

\* the greedy repetition (...)+ from position k: the position after the last iteration
RECURSIVE LiRunEnd(_, _)
LiRunEnd(s, k) ==
    LET e == LiGroupEnd(s, k)
    IN  IF e = 0 THEN k ELSE LiRunEnd(s, e)

\* re.sub(r'(<li>.*</li>\n?)+', r'<ul>\g<0></ul>', s), from position from on
RECURSIVE ListWrapFrom(_, _)
ListWrapFrom(s, from) ==
    LET k == Find(s, "<li>", from)
        e == LiRunEnd(s, k)
    IN  IF k = 0 THEN Slice(s, from, Len(s))
        ELSE IF e > k
             THEN Slice(s, from, k - 1) \o "<ul>" \o Slice(s, k, e - 1) \o "</ul>"
                      \o ListWrapFrom(s, e)
             ELSE Slice(s, from, k) \o ListWrapFrom(s, k + 1)

ListWrap(s) == ListWrapFrom(s, 1)

\* the paragraph test without its placeholder clause
ParagraphLine_text(line) ==
    LET stripped == Strip(line)
    IN  IF stripped # "" /\ ~StartsWith(stripped, "<")
        THEN "<p>" \o stripped \o "</p>"
        ELSE line

\* lines 96-100 for one line
ParagraphLine(line) ==
    LET stripped == Strip(line)
    IN  IF stripped # "" /\ ~StartsWith(stripped, "<") /\ ~StartsWith(stripped, "__CODE_BLOCK_")
        THEN "<p>" \o stripped \o "</p>"
        ELSE line

Paragraphs(s) ==
    LET lines == Split(s, "\n")
    IN  Join([k \in DOMAIN lines |-> ParagraphLine(lines[k])], "\n")

\* the position after the maximal run of \s characters that starts at k
SpaceEnd(s, k) ==
    CHOOSE j \in k..(Len(s) + 1) :
        /\ CharAt(s, j) \notin Whitespace
        /\ \A h \in k..(j - 1) : CharAt(s, h) \in Whitespace

\* re.sub(r'<p>\s*</p>', '', s), from position from on
RECURSIVE CleanupFrom(_, _)
CleanupFrom(s, from) ==
    LET k == Find(s, "<p>", from)
        e == SpaceEnd(s, k + 3)
    IN  IF k = 0 THEN Slice(s, from, Len(s))
        ELSE IF StartsAt(s, "</p>", e)
             THEN Slice(s, from, k - 1) \o CleanupFrom(s, e + 4)
             ELSE Slice(s, from, k) \o CleanupFrom(s, k + 1)

Cleanup(s) == CleanupFrom(s, 1)

\* one iteration of the loop of lines 107-108, for the record at 0-based index n
RestoreOne(s, blocks, n) == Replace(s, Placeholder(n), blocks[n + 1])

\* the loop of lines 107-108 from index n on
RECURSIVE RestoreFrom(_, _, _)
RestoreFrom(s, blocks, n) ==
    IF n >= Len(blocks) THEN s ELSE RestoreFrom(RestoreOne(s, blocks, n), blocks, n + 1)

(***************************************************************************)
(* MarkdownToHtml.convert as one function: what a call returns when it     *)
(* runs alone.                                                             *)
(***************************************************************************)

convert(text) ==
    LET x == ExtractFrom(text, 1, <<>>)
        t == _convert_tables(Italic(Bold(Header1(Header2(Header3(
                 Links(Images(InlineCode(x.html)))))))))
    IN  IF t.exc # "" THEN t
        ELSE Return(RestoreFrom(Cleanup(Paragraphs(ListWrap(ListItems(t.val)))), x.blocks, 0))

(***************************************************************************)
(* The state machine.  SiteGenerator holds one MarkdownToHtml (line 203)   *)
(* and calls convert on it for every page; a call c is a position pc[c] in *)
(* the body of convert together with the locals html and code_blocks of    *)
(* that call, and ri[c] is the loop variable i of the restoration loop.    *)
(***************************************************************************)

Calls == {1, 2}

\* code_blocks kept as one attribute of the shared MarkdownToHtml instance
CodeBlocksOf_shared(c) == 1

\* the list that the name code_blocks denotes in call c: line 51 binds a
\* fresh local list in every call
CodeBlocksOf(c) == c

Goto(c, to) == pc' = [pc EXCEPT ![c] = to]

\* the assignment html = out of call c, control moving on to the stage to
Rewrite(c, out, to) ==
    /\ html' = [html EXCEPT ![c] = out]
    /\ Goto(c, to)
    /\ UNCHANGED <<markdown, code_blocks, ri>>

\* lines 48-51
Begin(c) ==
    /\ pc[c] = "call"
    /\ html' = [html EXCEPT ![c] = markdown[c]]
    /\ code_blocks' = [code_blocks EXCEPT ![CodeBlocksOf(c)] = <<>>]
    /\ Goto(c, "extract")
    /\ UNCHANGED <<markdown, ri>>

\* line 58, with the appends of save_code_block
ExtractCodeBlocks(c) ==
    /\ pc[c] = "extract"
    /\ LET x == ExtractFrom(html[c], 1, code_blocks[CodeBlocksOf(c)])
       IN  /\ html' = [html EXCEPT ![c] = x.html]
           /\ code_blocks' = [code_blocks EXCEPT ![CodeBlocksOf(c)] = x.blocks]
    /\ Goto(c, "inline_code")
    /\ UNCHANGED <<markdown, ri>>

\* line 61
InlineCodeStage(c) ==
    /\ pc[c] = "inline_code"
    /\ Rewrite(c, InlineCode(html[c]), "images")

\* the image pass handing over to the header passes, the link pass left out
ImagesStage_no_links(c) ==
    /\ pc[c] = "images"
    /\ Rewrite(c, Images(html[c]), "h3")

\* line 71
ImagesStage(c) ==
    /\ pc[c] = "images"
    /\ Rewrite(c, Images(html[c]), "links")

\* line 74
LinksStage(c) ==
    /\ pc[c] = "links"
    /\ Rewrite(c, Links(html[c]), "h3")

\* lines 77-79
Header3Stage(c) ==
    /\ pc[c] = "h3"
    /\ Rewrite(c, Header3(html[c]), "h2")

Header2Stage(c) ==
    /\ pc[c] = "h2"
    /\ Rewrite(c, Header2(html[c]), "h1")

Header1Stage(c) ==
    /\ pc[c] = "h1"
    /\ Rewrite(c, Header1(html[c]), "bold")

\* lines 82-83
BoldStage(c) ==
    /\ pc[c] = "bold"
    /\ Rewrite(c, Bold(html[c]), "italic")

ItalicStage(c) ==
    /\ pc[c] = "italic"
    /\ Rewrite(c, Italic(html[c]), "tables")

\* line 86: an exception of _convert_tables leaves convert
TablesStage(c) ==
    /\ pc[c] = "tables"
    /\ LET t == _convert_tables(html[c])
       IN  IF t.exc = "" THEN Rewrite(c, t.val, "list_items")
           ELSE Rewrite(c, html[c], "raised")

\* lines 89-90
ListItemsStage(c) ==
    /\ pc[c] = "list_items"
    /\ Rewrite(c, ListItems(html[c]), "list_wrap")

ListWrapStage(c) ==
    /\ pc[c] = "list_wrap"
    /\ Rewrite(c, ListWrap(html[c]), "paragraphs")

\* lines 93-101
ParagraphsStage(c) ==
    /\ pc[c] = "paragraphs"
    /\ Rewrite(c, Paragraphs(html[c]), "cleanup")

\* line 104; the restoration loop starts at i = 0
CleanupStage(c) ==
    /\ pc[c] = "cleanup"
    /\ html' = [html EXCEPT ![c] = Cleanup(html[c])]
    /\ ri' = [ri EXCEPT ![c] = 0]
    /\ Goto(c, "restore")
    /\ UNCHANGED <<markdown, code_blocks>>

\* one iteration of lines 107-108
RestoreStep(c) ==
    /\ pc[c] = "restore"
    /\ ri[c] < Len(code_blocks[CodeBlocksOf(c)])
    /\ html' = [html EXCEPT ![c] = RestoreOne(html[c], code_blocks[CodeBlocksOf(c)], ri[c])]
    /\ ri' = [ri EXCEPT ![c] = ri[c] + 1]
    /\ UNCHANGED <<markdown, code_blocks, pc>>

\* line 110, when the loop has run over every record
ReturnHtml(c) ==
    /\ pc[c] = "restore"
    /\ ri[c] >= Len(code_blocks[CodeBlocksOf(c)])
    /\ Goto(c, "done")
    /\ UNCHANGED <<markdown, html, code_blocks, ri>>

\* the step call c takes from where it is
Step(c) ==
    \/ Begin(c)
    \/ ExtractCodeBlocks(c)
    \/ InlineCodeStage(c)
    \/ ImagesStage(c)
    \/ LinksStage(c)
    \/ Header3Stage(c)
    \/ Header2Stage(c)
    \/ Header1Stage(c)
    \/ BoldStage(c)
    \/ ItalicStage(c)
    \/ TablesStage(c)
    \/ ListItemsStage(c)
    \/ ListWrapStage(c)
    \/ ParagraphsStage(c)
    \/ CleanupStage(c)
    \/ RestoreStep(c)
    \/ ReturnHtml(c)

Next == \E c \in Calls : Step(c)

(***************************************************************************)
(* Inputs.  A document is up to MaxLines lines joined by newlines; the     *)
(* families below add the longer documents the properties are about.       *)
(***************************************************************************)

MaxLines == 3

DocLines ==
    {"", "text", "# T", "- item", "| A | B |", "|---|---|", "| 1 | ~x~",
     "~~~", "<b> & *c", "__CODE_BLOCK_0__"}

RECURSIVE DocsOfLen(_)
DocsOfLen(n) ==
    IF n = 1 THEN DocLines
    ELSE {d \o "\n" \o l : d \in DocsOfLen(n - 1), l \in DocLines}

Documents == UNION {DocsOfLen(n) : n \in 1..MaxLines}

\* a fenced block with language tag lang and interior body
Fenced(lang, body) == Fence \o lang \o "\n" \o body \o "\n" \o Fence

CodeBodies ==
    {"x", "<div>", "a && b", "__CODE_BLOCK_1__", "# h", "- i", "| c |", "*x*",
     "[a](b)", "~q~", "\n\nif a < b:\n\n\n  c > d\n"}

\* one or two fenced blocks, alone, after a literal placeholder, or in a table
FenceInputs ==
    {Fenced(l, b) : l \in {"", "py"}, b \in CodeBodies}
        \cup {Fenced("", b1) \o "\n" \o Fenced("py", b2) : b1 \in CodeBodies, b2 \in {"y", "<div>"}}
        \cup {"__CODE_BLOCK_0__\n" \o Fenced("", b) : b \in {"x", "<div>"}}
        \cup {"| A |\n| " \o Fence \o "\n" \o b \o Fence \o " |\n| 1 |" : b \in {"x", "<div>"}}
        \cup {"| A |\n|---|\n| " \o Fence \o "\n" \o b \o Fence \o " |" : b \in {"x", "<div>"}}

\* ![alt](src)
ImageRef(alt, src) == "![" \o alt \o "](" \o src \o ")"

ImageAlts == {"x", "", "a b"}

ImageSrcs ==
    {"pic.png", "img/pic.png", "../pic.png", "https://a/b.png", "http://a/b.png",
     "/img/b.png", "//cdn/b.png", "http:/b.png", "httpx.png", "[b](c"}

ImageTails == {"", " (d)", "\ntext"}

ImageInputs == {ImageRef(a, u) \o t : a \in ImageAlts, u \in ImageSrcs, t \in ImageTails}

\* one line of two or three emphasis spans, joined by a separator
EmphasisSpans == {"**bold**", "*italic*"}

EmphasisSeps == {" and ", ""}

EmphasisInputs ==
    {s1 \o j \o s2 : s1 \in EmphasisSpans, s2 \in EmphasisSpans, j \in EmphasisSeps}
        \cup {s1 \o j \o s2 \o j \o s3 :
                  s1 \in EmphasisSpans, s2 \in EmphasisSpans, s3 \in EmphasisSpans,
                  j \in EmphasisSeps}

\* a run of table lines: a header, a second line, and up to two body lines
TableHeaders == {"| A | B |", "| A | B", "|A|"}

TableSeconds == {"|---|---|", "| x |", "|"}

TableBodies == {"| 1 | ~x~ |", "| 1 | 2", "  | **b** |  "}

TableRuns ==
    {<<h, u>> : h \in TableHeaders, u \in TableSeconds}
        \cup {<<h, u, r>> : h \in TableHeaders, u \in TableSeconds, r \in TableBodies}
        \cup {<<h, u, r1, r2>> : h \in TableHeaders, u \in TableSeconds,
                                 r1 \in TableBodies, r2 \in TableBodies}

TableInputs == {Join(r, "\n") : r \in TableRuns}

\* unterminated fences, tables without separator or closing pipes, unbalanced emphasis
MalformedInputs ==
    {Fence, Fence \o "py\nx = 1", Fence \o "\n" \o Fence \o Fence, "| a", "| a |", "|",
     "| A | B\n|--\n| 1 | 2", "*", "**", "***", "**a*", "*a**", "**a** *b", "~", "~~", "![", "[a](", "![a]()"}

\* the text of a single-backtick span in a body cell, one with a pipe
CodeSpans == {"x", "a b", "a|b", "a | b"}

\* the cells before the cell of the span
CellLeads == {"", "1 | "}

\* a table whose one body row holds a cell that is one inline code span
CodeCellDoc(lead, span) == "| A | B |\n|---|---|\n| " \o lead \o BT \o span \o BT \o " |"

CodeCellInputs == {CodeCellDoc(lead, span) : lead \in CellLeads, span \in CodeSpans}

\* the texts of n lines, each line drawn from lines
RECURSIVE TextsOfLen(_, _)
TextsOfLen(lines, n) ==
    IF n = 1 THEN lines
    ELSE {d \o "\n" \o l : d \in TextsOfLen(lines, n - 1), l \in lines}

\* the longest text of the families of list lines and of table lines
MaxRunLines == 4

\* list items of three texts and two kinds of line that end a run
ListLines == {"- a", "- b", "- c d", "text", ""}

ListInputs == UNION {TextsOfLen(ListLines, n) : n \in 1..MaxRunLines}

\* lines with blanks around them, and lines that begin with a placeholder
\* or with its prefix and go on
ParagraphInputs ==
    {"  text  ", " # T", "#### T", "\t", "  <b>", "  __CODE_BLOCK_0__", "__CODE_BLOCK_ note",
     "__CODE_BLOCK_0__ tail", Fenced("", "x") \o " tail\ntext", "text\n  " \o Fenced("py", "x")}

\* a line that is one link, one image or one emphasis span, with the
\* element it converts to
InlineOnly ==
    {<<"[text](url)", "<a href=\"url\">text</a>">>,
     <<"[a b](https://a/b)", "<a href=\"https://a/b\">a b</a>">>,
     <<"![x](pic.png)", "<img src=\"../pic.png\" alt=\"x\" style=\"max-width:100%;height:auto;\">">>,
     <<"**bold**", "<strong>bold</strong>">>,
     <<"*italic*", "<em>italic</em>">>}

InlineOnlyInputs == {p[1] : p \in InlineOnly} \cup {"see [text](url)", "[text](url) here"}

\* a single-backtick span whose text has the shape of a link or of an image
LinkShapedSpans == {"[a](b)", "![a](b)", "see [a](b) here", "[a]", "(b)", "[a] (b)"}

CodeSpanInputs ==
    {BT \o s \o BT : s \in LinkShapedSpans}
        \cup {"text " \o BT \o s \o BT \o " text" : s \in LinkShapedSpans}

\* the longest interior of the fenced blocks of CleanInputs, in lines
MaxCodeLines == 4

\* blank and non-blank lines of a code block
CleanLines == {"", "  ", "a", " b"}

CleanBodies == UNION {TextsOfLen(CleanLines, n) : n \in 1..MaxCodeLines}

\* one fenced block whose interior is body as it stands
CleanDoc(body) == Fence \o "\n" \o body \o Fence

CleanInputs == {CleanDoc(body) : body \in CleanBodies}

\* pipe lines with and without blanks before the pipe, a line with a pipe
\* that does not start with one, and two kinds of line without a pipe
RunLines == {"| a |", "  | b", "x | y", "text", ""}

TableRunInputs == UNION {TextsOfLen(RunLines, n) : n \in 1..MaxRunLines}

\* header lines of one, two and three hashes, some with hashes in their
\* text, a line of four hashes and a line of text
HeaderLines == {"# T", "## T", "### T", "### # T", "## # a b", "# ## x", "#### T", "text"}

HeaderInputs == UNION {TextsOfLen(HeaderLines, n) : n \in 1..MaxLines}

Inputs ==
    CleanInputs \cup TableRunInputs \cup HeaderInputs \cup Documents \cup FenceInputs \cup ImageInputs \cup EmphasisInputs \cup TableInputs
        \cup MalformedInputs \cup CodeCellInputs \cup ListInputs \cup ParagraphInputs
        \cup InlineOnlyInputs \cup CodeSpanInputs

\* the documents of the two overlapping calls
PairInputs ==
    {"text", Fenced("", "a"), Fenced("py", "<b>") \o "\n" \o Fenced("", "c"),
     "# T\n" \o Fenced("", "d"), "| A |\n|---|\n| ~x~ |"}

(***************************************************************************)
(* Specifications.  Spec: one call of convert on any input.  SpecPair: two *)
(* calls on the same MarkdownToHtml whose stages interleave arbitrarily.   *)
(***************************************************************************)

InitCalls(texts, started) ==
    /\ markdown = texts
    /\ html = [c \in Calls |-> ""]
    /\ code_blocks = [c \in Calls |-> <<>>]
    /\ pc = [c \in Calls |-> IF c \in started THEN "call" ELSE "idle"]
    /\ ri = [c \in Calls |-> 0]

Init == \E text \in Inputs : InitCalls([c \in Calls |-> IF c = 1 THEN text ELSE ""], {1})

InitPair == \E texts \in [Calls -> PairInputs] : InitCalls(texts, Calls)

Spec == Init /\ [][Next]_vars

SpecPair == InitPair /\ [][Next]_vars

(***************************************************************************)
(* Properties.                                                             *)
(***************************************************************************)

\* the number of non-overlapping occurrences of p in s, as str.count
RECURSIVE Count(_, _)
Count(s, p) ==
    LET k == Find(s, p, 1)
    IN  IF k = 0 THEN 0 ELSE 1 + Count(Slice(s, k + Len(p), Len(s)), p)

DigitChars == {"0", "1", "2", "3", "4", "5", "6", "7", "8", "9"}

\* the position after the maximal run of digits that starts at k
DigitsEnd(s, k) ==
    CHOOSE j \in k..(Len(s) + 1) :
        /\ CharAt(s, j) \notin DigitChars
        /\ \A h \in k..(j - 1) : CharAt(s, h) \in DigitChars

\* s holds an occurrence of the sentinel pattern __CODE_BLOCK_<n>__
HasSentinel(s) ==
    \E k \in 1..Len(s) :
        /\ StartsAt(s, "__CODE_BLOCK_", k)
        /\ DigitsEnd(s, k + 13) > k + 13
        /\ StartsAt(s, "__", DigitsEnd(s, k + 13))

Done(c) == pc[c] = "done"

\* C1: placeholder closure: the string a call returns holds no occurrence of
\* the sentinel pattern __CODE_BLOCK_<n>__, for every input.
PlaceholderClosure == \A c \in Calls : Done(c) => ~HasSentinel(html[c])

\* how many records of blocks are equal to the record at n
Copies(blocks, n) == Cardinality({m \in DOMAIN blocks : blocks[m] = blocks[n]})

\* C2: exactly-once restoration: every placeholder the extraction emitted is
\* in the buffer exactly once when the restoration loop starts, and the HTML
\* of every record is in the returned string exactly once (as many times as
\* there are records with that same HTML).
ExactlyOnceRestoration ==
    \A c \in Calls :
        /\ (pc[c] = "restore" /\ ri[c] = 0) =>
               \A n \in DOMAIN code_blocks[c] : Count(html[c], Placeholder(n - 1)) = 1
        /\ Done(c) =>
               \A n \in DOMAIN code_blocks[c] :
                   Count(html[c], code_blocks[c][n]) = Copies(code_blocks[c], n)

\* the text between the <pre><code class="language-X"> that starts at k and
\* the next </code></pre>
CodeInterior(s, k) ==
    LET open  == Find(s, "\">", k)
        close == Find(s, "</code></pre>", open)
    IN  Slice(s, open + 2, close - 1)

\* C3: in the returned string no code interior, the text between a
\* <pre><code class="language-X"> and its </code></pre>, holds a raw < or >.
NoRawAngleInCode ==
    \A c \in Calls :
        Done(c) =>
            \A k \in 1..Len(html[c]) :
                StartsAt(html[c], "<pre><code class=\"language-", k) =>
                    /\ ~Contains(CodeInterior(html[c], k), "<")
                    /\ ~Contains(CodeInterior(html[c], k), ">")

\* C4: code protection and single escaping: the returned string holds the
\* record of every fenced block exactly as the extraction rendered it, and a
\* block of interior <div> alone is returned as the once-escaped &lt;div&gt;.
CodeProtected ==
    \A c \in Calls :
        Done(c) =>
            /\ \A n \in DOMAIN code_blocks[c] : Contains(html[c], code_blocks[c][n])
            /\ markdown[c] = Fenced("", "<div>") =>
                   html[c] = "<pre><code class=\"language-text\">&lt;div&gt;</code></pre>"

\* the stages of a call that has begun and not returned
Running == {"call", "extract", "inline_code", "images", "links", "h3", "h2", "h1", "bold",
            "italic", "tables", "list_items", "list_wrap", "paragraphs", "cleanup", "restore"}

\* C5: totality: no call ever leaves convert by an exception, whatever the
\* input (unterminated fences, malformed tables, unbalanced emphasis).
Totality == \A c \in Calls : pc[c] \in Running \cup {"idle", "done"}

\* C5 witness: a call on a malformed input has returned.
TotalityWitness == Done(1) /\ markdown[1] \in MalformedInputs /\ IsTableLine(markdown[1])

\* C6: call independence: a call returns what convert returns for its input
\* alone, whatever the other call does in between; equal inputs give equal
\* outputs; the placeholder indices of every call start at 0.
CallIndependence ==
    \A c \in Calls :
        /\ Done(c) => html[c] = convert(markdown[c]).val
        /\ \A d \in Calls : (Done(c) /\ Done(d) /\ markdown[c] = markdown[d]) => html[c] = html[d]
        /\ (pc[c] = "inline_code" /\ code_blocks[c] # <<>>) =>
               /\ Count(html[c], Placeholder(0)) = 1
               /\ Count(html[c], Placeholder(Len(code_blocks[c]))) = 0

\* C6 witness: both calls have returned, on different documents with code blocks.
CallIndependenceWitness ==
    /\ Done(1) /\ Done(2)
    /\ Len(code_blocks[1]) = 1 /\ Len(code_blocks[2]) = 2

\* the src attribute the image rule prescribes for a source path
ExpectedSrc(src) ==
    IF StartsWith(src, "http://") \/ StartsWith(src, "https://") \/ StartsWith(src, "/")
    THEN src
    ELSE "../" \o src

\* the <img> tag carrying alt and the src attribute out
ImgTag(alt, out) ==
    "<img src=\"" \o out \o "\" alt=\"" \o alt \o "\" style=\"max-width:100%;height:auto;\">"

\* C7: an image reference is never rendered as a link: the returned string
\* holds the <img> tag of the reference and no <a href= at all (the
\* documents of ImageInputs hold no link).
ImageNeverLink ==
    \A c \in Calls : \A a \in ImageAlts, u \in ImageSrcs, t \in ImageTails :
        (Done(c) /\ markdown[c] = ImageRef(a, u) \o t) =>
            /\ Contains(html[c], ImgTag(a, ExpectedSrc(u)))
            /\ ~Contains(html[c], "<a href=")

PlainSrcs == ImageSrcs \ {"[b](c"}

\* C8: image path rewrite: the image substitution emits the source path
\* unchanged when it begins with http://, https:// or /, and ../ followed by
\* the path otherwise; a lone reference with a plain path is returned as that tag.
ImagePathRewrite ==
    \A c \in Calls : \A a \in ImageAlts, u \in ImageSrcs, t \in ImageTails :
        markdown[c] = ImageRef(a, u) \o t =>
            /\ pc[c] = "links" => html[c] = ImgTag(a, ExpectedSrc(u)) \o t
            /\ (Done(c) /\ u \in PlainSrcs /\ t = "") => html[c] = ImgTag(a, ExpectedSrc(u))

\* C8 witness: the two examples have been converted.
ImagePathRewriteWitness ==
    /\ Done(1)
    /\ markdown[1] = "![x](pic.png)"
    /\ Contains(html[1], "src=\"../pic.png\"")

\* the rendering of one emphasis span
Rendered(span) ==
    IF span = "**bold**" THEN "<strong>bold</strong>" ELSE "<em>italic</em>"

\* C9: bold before italic: a line of balanced bold and italic spans is
\* returned with every bold span as <strong>, every italic span as <em>,
\* and no * left.
BoldBeforeItalic ==
    \A c \in Calls :
        Done(c) =>
            /\ markdown[c] \in EmphasisInputs => ~Contains(html[c], "*")
            /\ \A s1 \in EmphasisSpans, s2 \in EmphasisSpans, j \in EmphasisSeps :
                   markdown[c] = s1 \o j \o s2 => html[c] = Rendered(s1) \o j \o Rendered(s2)
            /\ \A s1 \in EmphasisSpans, s2 \in EmphasisSpans, s3 \in EmphasisSpans,
                     j \in EmphasisSeps :
                   markdown[c] = s1 \o j \o s2 \o j \o s3 =>
                       html[c] = Rendered(s1) \o j \o Rendered(s2) \o j \o Rendered(s3)

\* the cells of a table line: the fields between the pipes, the empty
\* fields of the leading and of the trailing pipe dropped, each trimmed
LineCells(line) ==
    LET fields == Split(Strip(line), "|")
        a == IF fields[1] = "" THEN 2 ELSE 1
        b == IF Len(fields) >= a /\ Strip(fields[Len(fields)]) = "" THEN Len(fields) - 1
             ELSE Len(fields)
    IN  [k \in 1..(b - a + 1) |-> Strip(fields[k + a - 1])]

\* the number of cells of the lines of run from line k on
RECURSIVE CellTotal(_, _)
CellTotal(run, k) ==
    IF k > Len(run) THEN 0 ELSE Len(LineCells(run[k])) + CellTotal(run, k + 1)

\* C10: table structure: a run of n >= 2 table lines is returned as one
\* table with one <th> per cell of line 0, line 1 discarded, and n-2 body
\* rows holding one <td> per cell of their line.
TableStructure ==
    \A c \in Calls : \A run \in TableRuns :
        (Done(c) /\ markdown[c] = Join(run, "\n")) =>
            /\ Count(html[c], "<div class=\"table-wrapper\"><table>") = 1
            /\ Count(html[c], "<th>") = Len(LineCells(run[1]))
            /\ Count(html[c], "<tr>") = 1 + (Len(run) - 2)
            /\ Count(html[c], "<td>") = CellTotal(run, 3)
            /\ \A k \in 1..Len(LineCells(run[1])) :
                   Contains(html[c], "<th>" \o LineCells(run[1])[k] \o "</th>")

\* C11: inline code in table cells: every single-backtick span of a body
\* row, a pipe inside it or not, is returned as one <code>span</code> that
\* lies wholly inside a single <td>.
InlineCodeInCells ==
    \A c \in Calls : \A lead \in CellLeads, span \in CodeSpans :
        (Done(c) /\ markdown[c] = CodeCellDoc(lead, span)) =>
            /\ Contains(html[c], "<td><code>" \o span \o "</code></td>")
            /\ Count(html[c], "<code>") = 1
            /\ Count(html[c], "<td>") = Len(LineCells(lead)) + 1

\* a line of the shape "- text"
IsListLine(line) == StartsWith(line, "- ") /\ Len(line) > 2

\* the maximal runs <<i, j>> of consecutive list lines of lines
ListRuns(lines) ==
    {r \in (1..Len(lines)) \X (1..Len(lines)) :
        /\ r[1] <= r[2]
        /\ \A k \in r[1]..r[2] : IsListLine(lines[k])
        /\ r[1] = 1 \/ ~IsListLine(lines[r[1] - 1])
        /\ r[2] = Len(lines) \/ ~IsListLine(lines[r[2] + 1])}

\* the <li> elements of the lines i..j, one per line
ListElements(lines, i, j) ==
    Join([k \in 1..(j - i + 1) |-> "<li>" \o Slice(lines[k + i - 1], 3, Len(lines[k + i - 1]))
                                       \o "</li>"], "\n")

\* C12: list grouping: every maximal run of n >= 1 consecutive "- text"
\* lines is returned as exactly one <ul> holding the n <li> of its lines in
\* order; two runs with a line between them are two <ul>.
ListGrouping ==
    \A c \in Calls :
        (Done(c) /\ markdown[c] \in ListInputs) =>
            LET lines == Split(markdown[c], "\n")
                runs  == ListRuns(lines)
            IN  /\ Count(html[c], "<ul>") = Cardinality(runs)
                /\ Count(html[c], "</ul>") = Cardinality(runs)
                /\ Count(html[c], "<li>") = Cardinality({k \in DOMAIN lines : IsListLine(lines[k])})
                /\ \A r \in runs :
                       \/ Contains(html[c], "<ul>" \o ListElements(lines, r[1], r[2]) \o "</ul>")
                       \/ Contains(html[c], "<ul>" \o ListElements(lines, r[1], r[2]) \o "\n</ul>")

\* C12 witness: a run of two items, a line of text and a run of one item
\* have been returned as two lists.
ListGroupingWitness ==
    /\ Done(1)
    /\ markdown[1] = "- a\n- b\ntext\n- c d"
    /\ Count(html[1], "<ul>") = 2
    /\ Count(html[1], "<li>") = 3

\* s is a placeholder token: __CODE_BLOCK_, one or more digits, __
IsPlaceholderToken(s) ==
    /\ StartsWith(s, "__CODE_BLOCK_")
    /\ DigitsEnd(s, 14) > 14
    /\ Slice(s, DigitsEnd(s, 14), Len(s)) = "__"

\* the buffer the paragraph pass makes of s when the lines it leaves alone
\* are the blank ones, the ones that start with < and the ones in exempt
ParagraphsBy(s, exempt(_)) ==
    LET lines == Split(s, "\n")
    IN  Join([k \in DOMAIN lines |->
                 IF Strip(lines[k]) # "" /\ ~StartsWith(Strip(lines[k]), "<")
                        /\ ~exempt(Strip(lines[k]))
                 THEN "<p>" \o Strip(lines[k]) \o "</p>"
                 ELSE lines[k]], "\n")

\* s begins with the placeholder prefix
HasPlaceholderPrefix(s) == StartsWith(s, "__CODE_BLOCK_")

InlineOnlyParagraph ==
    \A c \in Calls : \A p \in InlineOnly :
        (Done(c) /\ markdown[c] = p[1]) => html[c] = "<p>" \o p[2] \o "</p>"

\* C15: a single-backtick span whose text has the shape of a link or of an
\* image is returned as <code> with that text unchanged inside, and no <a>
\* and no <img> comes out of the text of a span.
CodeSpanLiteral ==
    \A c \in Calls : \A s \in LinkShapedSpans :
        /\ (Done(c) /\ markdown[c] = BT \o s \o BT) =>
               html[c] = "<p><code>" \o s \o "</code></p>" \/ html[c] = "<code>" \o s \o "</code>"
        /\ (Done(c) /\ markdown[c] \in CodeSpanInputs) =>
               /\ ~Contains(html[c], "<a ")
               /\ ~Contains(html[c], "<img ")

\* the stages of convert in the order of the claim, between the call and the return
StageOrder ==
    <<"call", "extract", "inline_code", "images", "links", "h3", "h2", "h1", "bold", "italic",
      "tables", "list_items", "list_wrap", "paragraphs", "cleanup", "restore", "done">>

\* the place of the control point p in StageOrder, 0 if it has none
StagePos(p) ==
    IF \E k \in DOMAIN StageOrder : StageOrder[k] = p
    THEN CHOOSE k \in DOMAIN StageOrder : StageOrder[k] = p
    ELSE 0

\* C16: stage ordering: within one call the stages run exactly once each
\* and strictly in the order extract, inline code, images, links, h3, h2,
\* h1, bold, italic, tables, list items, list wrapping, paragraphs, cleanup,
\* restore: control only ever moves from a stage to the next one of the
\* order, the buffer changes only when a whole stage has rewritten it or
\* the restoration has replaced one more record, restoration takes the
\* records in index order, and the return follows the restoration and
\* changes nothing.
StageOrdering ==
    [][\A c \in Calls :
           /\ pc'[c] # pc[c] =>
                  /\ StagePos(pc[c]) > 0
                  /\ StagePos(pc'[c]) = StagePos(pc[c]) + 1
           /\ (pc'[c] = pc[c] /\ html'[c] # html[c]) =>
                  /\ pc[c] = "restore"
                  /\ ri'[c] = ri[c] + 1
                  /\ ri[c] < Len(code_blocks[c])
           /\ pc'[c] = "done" /\ pc[c] # "done" =>
                  /\ html'[c] = html[c]
                  /\ ri[c] = Len(code_blocks[c])
           /\ code_blocks'[c] # code_blocks[c] => pc[c] = "extract"]_vars

\* C16 witness: a call on a document with two code blocks has gone through
\* every stage and returned after two iterations of the restoration.
StageOrderingWitness ==
    /\ Done(1)
    /\ Len(code_blocks[1]) = 2
    /\ ri[1] = 2
    /\ markdown[1] # html[1]

\* C17: placeholder tokens do not collide with document content: every
\* iteration of the restoration replaces the one token the extraction
\* emitted for its record and nothing else, so a literal __CODE_BLOCK_0__
\* of the author outside a fence, and the text inside a code block, come
\* back unreplaced.
NoTokenCollision ==
    \A c \in Calls :
        /\ (pc[c] = "restore" /\ ri[c] < Len(code_blocks[c])) =>
               Count(html[c], Placeholder(ri[c])) <= 1
        /\ \A b \in {"x", "<div>"} :
               (Done(c) /\ markdown[c] = "__CODE_BLOCK_0__\n" \o Fenced("", b)) =>
                   html[c] = "__CODE_BLOCK_0__\n" \o code_blocks[c][1]
        /\ \A b \in {"y", "<div>"} :
               (Done(c) /\ markdown[c] = Fenced("", "__CODE_BLOCK_1__") \o "\n" \o Fenced("py", b)) =>
                   Contains(html[c], "<pre><code class=\"language-text\">__CODE_BLOCK_1__</code></pre>")

NotBlank(line) == ~IsBlank(line)

\* the lines of a cleaned block; the empty result has none
ResultLines(out) == IF out = "" THEN <<>> ELSE Split(out, "\n")

\* the lines of lines that are blank, follow a non-blank line and have a
\* non-blank line somewhere after them: the first lines of the inner blank runs
InnerBlankRuns(lines) ==
    {k \in 2..Len(lines) :
        /\ IsBlank(lines[k])
        /\ NotBlank(lines[k - 1])
        /\ \E j \in (k + 1)..Len(lines) : NotBlank(lines[j])}

\* the interior of the block of a document of CleanInputs
CleanBodyOf(doc) == Slice(doc, Len(Fence) + 2, Len(doc) - Len(Fence))

\* C18: code-block cleaning: the result of _clean_code_block has no blank
\* first line and no blank last line, holds no two consecutive blank lines
\* (every run of blank lines between two non-blank lines comes out as
\* exactly one empty line), and holds the non-blank lines of the input
\* unchanged and in the same order.  The empty result counts as no lines.
CodeBlockCleaning ==
    \A c \in Calls :
        (pc[c] = "inline_code" /\ markdown[c] \in CleanInputs) =>
            LET in  == Split(CleanBodyOf(markdown[c]), "\n")
                res == ResultLines(CodeInterior(code_blocks[c][1], 1))
            IN  /\ Len(code_blocks[c]) = 1
                /\ res # <<>> => NotBlank(res[1]) /\ NotBlank(res[Len(res)])
                /\ \A k \in 1..(Len(res) - 1) : NotBlank(res[k]) \/ NotBlank(res[k + 1])
                /\ \A k \in DOMAIN res : IsBlank(res[k]) => res[k] = ""
                /\ Cardinality({k \in DOMAIN res : IsBlank(res[k])})
                       = Cardinality(InnerBlankRuns(in))
                /\ SelectSeq(res, NotBlank) = SelectSeq(in, NotBlank)

\* C18 witness: a block with a run of two blank lines between its two
\* non-blank lines has been cleaned to those lines with one empty line between.
CodeBlockCleaningWitness ==
    /\ pc[1] = "inline_code"
    /\ markdown[1] = CleanDoc("a\n\n  \n b")
    /\ code_blocks[1] = <<"<pre><code class=\"language-text\">a\n\n b</code></pre>">>

\* a table line as the claim has it: the trimmed line contains | and starts with |
IsPipeLine(line) == Contains(Strip(line), "|") /\ StartsWith(Strip(line), "|")

\* the last line of the run of pipe lines that starts at line k
RunEnd(lines, k) ==
    CHOOSE j \in k..Len(lines) :
        /\ \A h \in k..j : IsPipeLine(lines[h])
        /\ j = Len(lines) \/ ~IsPipeLine(lines[j + 1])

\* the output of the table pass by runs, from line k on: every other line as it
\* is, a run of one line as it is, a longer run as the table built of its lines
RECURSIVE RunSegments(_, _)
RunSegments(lines, k) ==
    IF k > Len(lines) THEN <<>>
    ELSE IF ~IsPipeLine(lines[k]) THEN <<lines[k]>> \o RunSegments(lines, k + 1)
    ELSE LET j == RunEnd(lines, k)
         IN  (IF j = k THEN <<lines[k]>> ELSE <<_build_table(SubSeq(lines, k, j)).val>>)
                 \o RunSegments(lines, j + 1)

\* the runs <<k, j>> of two or more pipe lines of lines
LongRuns(lines) ==
    {r \in (1..Len(lines)) \X (1..Len(lines)) :
        /\ r[1] < r[2]
        /\ IsPipeLine(lines[r[1]])
        /\ r[1] = 1 \/ ~IsPipeLine(lines[r[1] - 1])
        /\ r[2] = RunEnd(lines, r[1])}

\* C19: table run detection: the table pass takes a line as a table line
\* iff its trimmed form contains | and starts with |; consecutive table
\* lines form one run, closed by a line that is none or by the end of the
\* buffer; a run of two or more lines becomes one table and a run of one
\* line is emitted as it is.
TableRunDetection ==
    [][\A c \in Calls :
           (pc[c] = "tables" /\ pc'[c] = "list_items") =>
               LET lines == Split(html[c], "\n")
               IN  /\ html'[c] = Join(RunSegments(lines, 1), "\n")
                   /\ markdown[c] \in TableRunInputs =>
                          /\ Count(html'[c], "<table>") = Cardinality(LongRuns(lines))
                          /\ Count(html'[c], "</table>") = Cardinality(LongRuns(lines))
                          /\ \A k \in DOMAIN lines :
                                 (\A r \in LongRuns(lines) : k < r[1] \/ k > r[2]) =>
                                     \E h \in DOMAIN Split(html'[c], "\n") :
                                         Split(html'[c], "\n")[h] = lines[k]]_vars

\* C19 witness: the table pass has left a single pipe line and a line of
\* text as they are and made one table of the two pipe lines at the end.
TableRunDetectionWitness ==
    /\ pc[1] = "list_items"
    /\ markdown[1] = "| a |\ntext\n| a |\n  | b"
    /\ StartsWith(html[1], "| a |\ntext\n<div class=\"table-wrapper\"><table>")
    /\ Count(html[1], "<table>") = 1

\* the header row of a table with the cells cells
HeaderRow(cells) ==
    "<thead><tr>\n" \o Join([k \in DOMAIN cells |-> "<th>" \o cells[k] \o "</th>\n"], "")
        \o "</tr></thead>"

\* C20: table cell splitting: the cells of a table line are the fields
\* between its pipes, only the empty outer fields dropped and each field
\* trimmed, and no non-empty field is dropped: the header row of a
\* returned table holds one <th> per such cell of line 0, so the line
\* | A | B gives the cells A and B.
TableCellSplitting ==
    \A c \in Calls : \A h \in TableHeaders, u \in TableSeconds :
        (Done(c) /\ markdown[c] = h \o "\n" \o u) =>
            /\ Contains(html[c], HeaderRow(LineCells(h)))
            /\ h = "| A | B" => Contains(html[c], "<th>A</th>\n<th>B</th>")

\* the header element of a line by the longest prefix of hashes and a
\* blank that text follows; the line itself if it has no such prefix
HeaderElement(line) ==
    IF StartsWith(line, "### ") /\ Len(line) > 4
    THEN "<h3>" \o Slice(line, 5, Len(line)) \o "</h3>"
    ELSE IF StartsWith(line, "## ") /\ Len(line) > 3
    THEN "<h2>" \o Slice(line, 4, Len(line)) \o "</h2>"
    ELSE IF StartsWith(line, "# ") /\ Len(line) > 2
    THEN "<h1>" \o Slice(line, 3, Len(line)) \o "</h1>"
    ELSE line

\* how many of lines start with prefix and go on
PrefixedLines(lines, prefix) ==
    Cardinality({k \in DOMAIN lines : StartsWith(lines[k], prefix) /\ Len(lines[k]) > Len(prefix)})

\* C21: header longest-prefix rule: a line that starts with "### " and
\* goes on becomes exactly one <h3> element, one with "## " exactly one
\* <h2>, one with "# " exactly one <h1>; no line is wrapped by more than
\* one header substitution, and a "## " or "### " line gives no <h1>.
HeaderLongestPrefix ==
    \A c \in Calls :
        markdown[c] \in HeaderInputs =>
            LET lines == Split(markdown[c], "\n")
            IN  /\ pc[c] = "bold" =>
                       html[c] = Join([k \in DOMAIN lines |-> HeaderElement(lines[k])], "\n")
                /\ Done(c) =>
                       /\ Count(html[c], "<h3>") = PrefixedLines(lines, "### ")
                       /\ Count(html[c], "<h2>") = PrefixedLines(lines, "## ")
                       /\ Count(html[c], "<h1>") = PrefixedLines(lines, "# ")
                       /\ \A k \in DOMAIN lines :
                              HeaderElement(lines[k]) # lines[k] =>
                                  Split(html[c], "\n")[k] = HeaderElement(lines[k])

\* C21 witness: a document of an h3, an h2 and an h1 line, two of them with
\* hashes in their text, has been returned as three header elements.
HeaderLongestPrefixWitness ==
    /\ Done(1)
    /\ markdown[1] = "### # T\n## T\n# ## x"
    /\ html[1] = "<h3># T</h3>\n<h2>T</h2>\n<h1>## x</h1>"

\* C22: _clean_code_block is idempotent: cleaning the cleaned interior of
\* a block again gives the cleaned interior.
CleanIdempotent ==
    \A c \in Calls :
        (pc[c] = "inline_code" /\ markdown[c] \in CleanInputs) =>
            LET once == CodeInterior(code_blocks[c][1], 1)
            IN  /\ once = _clean_code_block(CleanBodyOf(markdown[c]))
                /\ _clean_code_block(once) = once

\* C22 witness: the extraction has cleaned an interior with a blank line
\* in front of its first non-blank line and one blank line inside.
CleanIdempotentWitness ==
    /\ pc[1] = "inline_code"
    /\ markdown[1] = CleanDoc("  \na\n\n b")
    /\ CodeInterior(code_blocks[1][1], 1) = "a\n\n b"

\* line k of the returned string for a document of list lines, text lines
\* and empty lines: </ul> stands in front of the line that follows a run
\* and keeps it out of the paragraph pass
ClosedLine(lines, k) ==
    LET closes == k > 1 /\ IsListLine(lines[k - 1])
    IN  IF IsListLine(lines[k])
        THEN (IF closes THEN "" ELSE "<ul>") \o ListElements(lines, k, k)
                 \o (IF k = Len(lines) THEN "</ul>" ELSE "")
        ELSE IF closes THEN "</ul>" \o lines[k]
        ELSE IF lines[k] = "" THEN ""
        ELSE "<p>" \o lines[k] \o "</p>"

\* C23: list closing-tag placement: when a newline follows the last <li>
\* line of a run, </ul> is put after that newline, at the start of the
\* following line, so a line of text right after a list item is returned
\* as </ul> and the text on one line, with no <p> around it; a run at the
\* end of the buffer is closed on its last line.
ListClosingTag ==
    \A c \in Calls :
        markdown[c] \in ListInputs =>
            LET lines == Split(markdown[c], "\n")
            IN  /\ Done(c) =>
                       html[c] = Join([k \in DOMAIN lines |-> ClosedLine(lines, k)], "\n")
                /\ pc[c] = "paragraphs" =>
                       \A r \in ListRuns(lines) :
                           r[2] < Len(lines) =>
                               Contains(html[c], ListElements(lines, r[2], r[2]) \o "\n</ul>"
                                                     \o lines[r[2] + 1])

\* C23 witness: a line of text right after a run of two items has been
\* returned on the line of the closing tag, without a paragraph.
ListClosingTagWitness ==
    /\ Done(1)
    /\ markdown[1] = "- a\n- b\ntext"
    /\ html[1] = "<ul><li>a</li>\n<li>b</li>\n</ul>text"

=============================================================================
